---- MODULE Spec2Model ----
(***************************************************************************)
(* The adoption lifecycle of The Ark: the animals.is_available flag, the   *)
(* adoption_applications rows and the four request handlers that write     *)
(* them (POST /api/adoptions, PUT /api/adoptions/:id/status,               *)
(* DELETE /api/adoptions/:id, PUT /api/animals/:id).                       *)
(*                                                                         *)
(* Every handler is an async function; each awaited pool.execute is one    *)
(* auto-committed statement, and other requests run between two awaits.    *)
(* One action of the model is therefore one awaited statement together     *)
(* with the synchronous code that follows it up to the next await.         *)
(***************************************************************************)
EXTENDS Integers, FiniteSets, Sequences, TLC

\* ------------------------------------------------------------------ bounds
NumAnimals == 2     \* rows of the animals table
MaxApps    == 2     \* cap on the AUTO_INCREMENT id of adoption_applications
MaxProcs   == 2     \* requests that may be in flight together
MaxRequests == 2    \* requests other than submissions in one behaviour

Animals == 1..NumAnimals
AppIds  == 1..MaxApps
Procs   == 1..MaxProcs

\* ------------------------------------------------------------- vocabulary
Users  == {"u1", "u2", "a1"}
Applicants == {"u1", "u2"}            \* the users who apply
NoUser == "nouser"                    \* req.user undefined / no token
NULL   == "NULL"                      \* SQL NULL
NoRow  == [user_id |-> NoUser, animal_id |-> 0, status |-> "norow",
           reviewed_by |-> NULL, reviewed_date |-> FALSE, admin_notes |-> NULL]

\* users.role
Role(u) == CASE u = "a1" -> "admin"
             [] u = "v1" -> "volunteer"
             [] OTHER    -> "user"

Statuses   == {"pending", "approved", "rejected", "completed"}
Notes      == {"note"}                \* admin_notes supplied by a reviewer
CascadeNote == "Animal was adopted by another applicant"

VARIABLES
    animals,   \* animals.is_available, by animal id
    apps,      \* adoption_applications rows by id (NoRow: no such row)
    nextId,    \* AUTO_INCREMENT counter of adoption_applications
    reqs,      \* the request each worker is handling, and where it stands
    issued     \* requests received so far, submissions (POST) not counted

vars == <<animals, apps, nextId, reqs, issued>>

\* token is the user the Authorization header of the request names (NoUser:
\* no valid token) and user is req.user as the handler's chain sees it.
\* cur and seen are what the handler found when it loaded its row: the
\* application's status (application.current_status) and, kept for stating
\* properties only, the is_available flag of its animal at that moment.
Idle == [kind |-> "idle", pc |-> "idle", token |-> NoUser, user |-> NoUser,
         id |-> 0,
         animal |-> 0, status |-> "none", notes |-> NULL,
         hasAvail |-> FALSE, avail |-> FALSE, cur |-> "none", seen |-> FALSE,
         code |-> 0, msg |-> "none"]

InFlight(p) == reqs[p].pc \notin {"idle", "done"}

\* a request goes to the lowest worker that is not handling one, once the
\* answers already written have left
FreeProcs == {p \in Procs : reqs[p].pc = "idle"}
IsNext(p) ==
    /\ p \in FreeProcs /\ \A q \in FreeProcs : p <= q
    /\ \A q \in Procs : reqs[q].pc # "done"

\* res.status(code).json({message}) : the handler is over; the worker holds
\* the answered request until the response has left (Deliver)
Answered(r, code, msg) == [r EXCEPT !.pc = "done", !.code = code, !.msg = msg]

Respond(p, code, msg) ==
    reqs' = [reqs EXCEPT ![p] = Answered(reqs[p], code, msg)]

Goto(p, pc) == reqs' = [reqs EXCEPT ![p].pc = pc]

\* a request answered by the middleware chain of its route or by the catch
\* block of its handler: the answer does not depend on its parameters
Refused(kind, user, code, msg) ==
    Answered([Idle EXCEPT !.kind = kind, !.user = user], code, msg)

\* worker p takes request r, or answers it at once when the middleware
\* chain of its route refuses it
Accept(p, r) == reqs' = [reqs EXCEPT ![p] = r]

\* ------------------------------------------------------------- middleware
\* requireRole(...roles): 0 when next() is called, else the status sent
requireRole(roles, user) ==
    IF user = NoUser THEN 401
    ELSE IF Role(user) \notin roles THEN 403
    ELSE 0

\* variant: any authenticated user passes
requireStaffAnyRole(user) ==
    requireRole({"admin", "volunteer", "user"}, user)

requireStaff(user) == requireRole({"admin", "volunteer"}, user)

\* verifyToken: req.user is the token's user; 401 without a valid token
verifyToken(token) == IF token = NoUser THEN 401 ELSE 0

\* req.user when the chain of a route that does not call verifyToken starts
\* (PUT /api/adoptions/:id/status and PUT /api/animals/:id list requireStaff
\* alone).  server.js mounts the routers behind no authenticating middleware,
\* so as mounted there the value is undefined (NoUser) whatever the token and
\* requireStaff answers 401; the token's user stands for a front end that
\* has verified the token and populated req.user, which is the only way the
\* bodies of these two handlers run.
EntryUsers(token) == {token, NoUser}

\* ------------------------------------------------- POST /api/adoptions
\* variant: the duplicate check counts an application of any status
existingApplicationAnyStatus(rows, user_id, animal_id) ==
    {i \in AppIds : rows[i].user_id = user_id /\ rows[i].animal_id = animal_id}

\* SELECT id ... WHERE user_id = ? AND animal_id = ? AND status = "pending"
existingApplication(rows, user_id, animal_id) ==
    {i \in AppIds : rows[i].user_id = user_id /\ rows[i].animal_id = animal_id
                    /\ rows[i].status = "pending"}

CreatesInFlight == {p \in Procs : reqs[p].kind = "create"}

StartCreate(p, token, animal_id) ==
    /\ IsNext(p)
    /\ nextId + Cardinality(CreatesInFlight) <= MaxApps
    /\ UNCHANGED issued
    /\ LET r == [Idle EXCEPT !.kind = "create", !.token = token,
                             !.user = token, !.animal = animal_id]
       IN IF verifyToken(token) # 0
            THEN Accept(p, Refused(r.kind, r.user, verifyToken(token), "auth"))
            ELSE Accept(p, [r EXCEPT !.pc = "checkAnimal"])
    /\ UNCHANGED <<animals, apps, nextId>>

\* variant: the handler tests only that the animal exists
CreateCheckAnimalExistsOnly(p) ==
    /\ reqs[p].kind = "create" /\ reqs[p].pc = "checkAnimal"
    /\ IF reqs[p].animal \notin Animals
         THEN Respond(p, 404, "animal not found")
         ELSE Goto(p, "checkExisting")
    /\ UNCHANGED <<animals, apps, nextId, issued>>

CreateCheckAnimal(p) ==
    /\ reqs[p].kind = "create" /\ reqs[p].pc = "checkAnimal"
    /\ IF reqs[p].animal \notin Animals
         THEN Respond(p, 404, "animal not found")
       ELSE IF ~animals[reqs[p].animal]
         THEN Respond(p, 400, "animal unavailable")
       ELSE Goto(p, "checkExisting")
    /\ UNCHANGED <<animals, apps, nextId, issued>>

\* variant: a repeated submission withdraws the one that is pending
CreateCheckExistingReplaces(p) ==
    /\ reqs[p].kind = "create" /\ reqs[p].pc = "checkExisting"
    /\ IF existingApplication(apps, reqs[p].user, reqs[p].animal) # {}
         THEN /\ Respond(p, 400, "already pending")
              /\ apps' = [i \in AppIds |->
                    IF i \in existingApplication(apps, reqs[p].user,
                                                 reqs[p].animal)
                      THEN [apps[i] EXCEPT !.status = "rejected"]
                      ELSE apps[i]]
         ELSE Goto(p, "insert") /\ UNCHANGED apps
    /\ UNCHANGED <<animals, nextId, issued>>

CreateCheckExisting(p) ==
    /\ reqs[p].kind = "create" /\ reqs[p].pc = "checkExisting"
    /\ IF existingApplication(apps, reqs[p].user, reqs[p].animal) # {}
         THEN Respond(p, 400, "already pending")
         ELSE Goto(p, "insert")
    /\ UNCHANGED <<animals, apps, nextId, issued>>

\* variant: the INSERT stamps the submission as reviewed by its applicant
NewRowStamped(user_id, animal_id) ==
    [user_id |-> user_id, animal_id |-> animal_id, status |-> "pending",
     reviewed_by |-> user_id, reviewed_date |-> TRUE, admin_notes |-> NULL]

\* INSERT INTO adoption_applications: status, reviewed_by, reviewed_date and
\* admin_notes take the defaults of schema.sql
NewRow(user_id, animal_id) ==
    [user_id |-> user_id, animal_id |-> animal_id, status |-> "pending",
     reviewed_by |-> NULL, reviewed_date |-> FALSE, admin_notes |-> NULL]

CreateInsert(p) ==
    /\ reqs[p].kind = "create" /\ reqs[p].pc = "insert"
    /\ apps' = [apps EXCEPT ![nextId] = NewRow(reqs[p].user, reqs[p].animal)]
    /\ nextId' = nextId + 1
    /\ reqs' = [reqs EXCEPT ![p].pc = "fetch", ![p].id = nextId]
    /\ UNCHANGED <<animals, issued>>

CreateFetch(p) ==
    /\ reqs[p].kind = "create" /\ reqs[p].pc = "fetch"
    /\ Respond(p, 201, "submitted")
    /\ UNCHANGED <<animals, apps, nextId, issued>>

\* ------------------------------------------ PUT /api/adoptions/:id/status
StartTransition(p, token, user, id, status, notes) ==
    /\ IsNext(p)
    /\ issued < MaxRequests
    /\ issued' = issued + 1
    /\ LET r == [Idle EXCEPT !.kind = "transition", !.token = token,
                             !.user = user, !.id = id,
                             !.status = status, !.notes = notes]
       IN IF requireStaff(user) # 0
            THEN Accept(p, [Refused(r.kind, r.user, requireStaff(user), "auth")
                              EXCEPT !.token = token])
          ELSE IF status \notin Statuses
            THEN Accept(p, Refused(r.kind, r.user, 400, "validation"))
          ELSE Accept(p, [r EXCEPT !.pc = "load"])
    /\ UNCHANGED <<animals, apps, nextId>>

\* variant: the handler goes on without testing what the SELECT returned
TransitionLoadUnchecked(p) ==
    /\ reqs[p].kind = "transition" /\ reqs[p].pc = "load"
    /\ reqs' = [reqs EXCEPT
          ![p].pc = "update",
          ![p].animal = apps[reqs[p].id].animal_id,
          ![p].cur = apps[reqs[p].id].status]
    /\ UNCHANGED <<animals, apps, nextId, issued>>

TransitionLoad(p) ==
    /\ reqs[p].kind = "transition" /\ reqs[p].pc = "load"
    /\ IF apps[reqs[p].id] = NoRow
         THEN Respond(p, 404, "application not found")
         ELSE /\ reqs' = [reqs EXCEPT
                    ![p].pc = "update",
                    ![p].animal = apps[reqs[p].id].animal_id,
                    ![p].cur = apps[reqs[p].id].status,
                    ![p].seen = animals[apps[reqs[p].id].animal_id]]
    /\ UNCHANGED <<animals, apps, nextId, issued>>

\* variant: the UPDATE leaves admin_notes out
UpdateStatusKeepsNotes(rows, id, status, notes, reviewer) ==
    IF rows[id] = NoRow THEN rows
    ELSE [rows EXCEPT ![id].status = status,
                      ![id].reviewed_by = reviewer,
                      ![id].reviewed_date = TRUE]

\* UPDATE adoption_applications SET status, admin_notes, reviewed_by,
\* reviewed_date WHERE id = ?
UpdateStatus(rows, id, status, notes, reviewer) ==
    IF rows[id] = NoRow THEN rows
    ELSE [rows EXCEPT ![id].status = status,
                      ![id].admin_notes = notes,
                      ![id].reviewed_by = reviewer,
                      ![id].reviewed_date = TRUE]

\* variant: every rejection gives the animal back
AfterUpdateRejectFrees(status, cur) ==
    IF status = "approved" /\ cur # "approved" THEN "animalOff"
    ELSE IF status = "rejected" \/ (status = "completed" /\ cur = "approved")
      THEN "animalOn"
    ELSE "reload"

\* variant: only a rejection gives the animal back
AfterUpdateRejectedOnly(status, cur) ==
    IF status = "approved" /\ cur # "approved" THEN "animalOff"
    ELSE IF status = "rejected" /\ cur = "approved" THEN "animalOn"
    ELSE "reload"

\* the two if-statements that follow the primary UPDATE
AfterUpdate(status, cur) ==
    IF status = "approved" /\ cur # "approved" THEN "animalOff"
    ELSE IF status \in {"rejected", "completed"} /\ cur = "approved"
      THEN "animalOn"
    ELSE "reload"

TransitionUpdate(p) ==
    /\ reqs[p].kind = "transition" /\ reqs[p].pc = "update"
    /\ apps' = UpdateStatus(apps, reqs[p].id, reqs[p].status, reqs[p].notes,
                            reqs[p].user)
    /\ Goto(p, AfterUpdate(reqs[p].status, reqs[p].cur))
    /\ UNCHANGED <<animals, nextId, issued>>

\* UPDATE animals SET is_available = ? WHERE id = ?
SetAvailable(flags, animal_id, value) ==
    [flags EXCEPT ![animal_id] = value]

TransitionAnimalOff(p) ==
    /\ reqs[p].kind = "transition" /\ reqs[p].pc = "animalOff"
    /\ animals' = SetAvailable(animals, reqs[p].animal, FALSE)
    /\ Goto(p, "siblings")
    /\ UNCHANGED <<apps, nextId, issued>>

\* variant: the cascade rejects the siblings whatever their status
RejectSiblingsAnyStatus(rows, animal_id, id, reviewer) ==
    [i \in AppIds |->
        IF rows[i].animal_id = animal_id /\ i # id
          THEN [rows[i] EXCEPT !.status = "rejected",
                               !.admin_notes = CascadeNote,
                               !.reviewed_by = reviewer,
                               !.reviewed_date = TRUE]
          ELSE rows[i]]

\* variant: the cascade leaves reviewed_by as it was
RejectSiblingsKeepsReviewer(rows, animal_id, id, reviewer) ==
    [i \in AppIds |->
        IF rows[i].animal_id = animal_id /\ i # id /\ rows[i].status = "pending"
          THEN [rows[i] EXCEPT !.status = "rejected",
                               !.admin_notes = CascadeNote,
                               !.reviewed_date = TRUE]
          ELSE rows[i]]

\* UPDATE ... WHERE animal_id = ? AND id != ? AND status = 'pending'
RejectSiblings(rows, animal_id, id, reviewer) ==
    [i \in AppIds |->
        IF rows[i].animal_id = animal_id /\ i # id /\ rows[i].status = "pending"
          THEN [rows[i] EXCEPT !.status = "rejected",
                               !.admin_notes = CascadeNote,
                               !.reviewed_by = reviewer,
                               !.reviewed_date = TRUE]
          ELSE rows[i]]

TransitionSiblings(p) ==
    /\ reqs[p].kind = "transition" /\ reqs[p].pc = "siblings"
    /\ apps' = RejectSiblings(apps, reqs[p].animal, reqs[p].id, reqs[p].user)
    /\ Goto(p, "reload")
    /\ UNCHANGED <<animals, nextId, issued>>

TransitionAnimalOn(p) ==
    /\ reqs[p].kind = "transition" /\ reqs[p].pc = "animalOn"
    /\ animals' = SetAvailable(animals, reqs[p].animal, TRUE)
    /\ Goto(p, "reload")
    /\ UNCHANGED <<apps, nextId, issued>>

TransitionReload(p) ==
    /\ reqs[p].kind = "transition" /\ reqs[p].pc = "reload"
    /\ Respond(p, 200, "updated")
    /\ UNCHANGED <<animals, apps, nextId, issued>>

\* --------------------------------------------- DELETE /api/adoptions/:id
StartDelete(p, token, id) ==
    /\ IsNext(p)
    /\ issued < MaxRequests
    /\ issued' = issued + 1
    /\ LET r == [Idle EXCEPT !.kind = "delete", !.token = token,
                             !.user = token, !.id = id]
       IN IF verifyToken(token) # 0
            THEN Accept(p, Refused(r.kind, r.user, verifyToken(token), "auth"))
            ELSE Accept(p, [r EXCEPT !.pc = "load"])
    /\ UNCHANGED <<animals, apps, nextId>>

\* variant: a user may withdraw an own application of any status
DeleteLoadOwnerOnly(p) ==
    /\ reqs[p].kind = "delete" /\ reqs[p].pc = "load"
    /\ LET row == apps[reqs[p].id]
       IN IF row = NoRow
            THEN Respond(p, 404, "application not found")
          ELSE IF Role(reqs[p].user) = "user" /\ row.user_id # reqs[p].user
            THEN Respond(p, 403, "access denied")
          ELSE /\ reqs' = [reqs EXCEPT ![p].pc = "delete",
                                       ![p].cur = row.status,
                                       ![p].animal = row.animal_id]
    /\ UNCHANGED <<animals, apps, nextId, issued>>

DeleteLoad(p) ==
    /\ reqs[p].kind = "delete" /\ reqs[p].pc = "load"
    /\ LET row == apps[reqs[p].id]
       IN IF row = NoRow
            THEN Respond(p, 404, "application not found")
          ELSE IF Role(reqs[p].user) = "user" /\ row.user_id # reqs[p].user
            THEN Respond(p, 403, "access denied")
          ELSE IF Role(reqs[p].user) = "user" /\ row.status # "pending"
            THEN Respond(p, 400, "not pending")
          ELSE /\ reqs' = [reqs EXCEPT ![p].pc = "delete",
                                       ![p].cur = row.status,
                                       ![p].animal = row.animal_id]
    /\ UNCHANGED <<animals, apps, nextId, issued>>

\* variant: deleting an approved application gives the animal back
DeleteRowFreesAnimal(p) ==
    /\ reqs[p].kind = "delete" /\ reqs[p].pc = "delete"
    /\ apps' = [apps EXCEPT ![reqs[p].id] = NoRow]
    /\ animals' = IF reqs[p].cur = "approved"
                    THEN [animals EXCEPT ![reqs[p].animal] = TRUE]
                    ELSE animals
    /\ Respond(p, 200, "deleted")
    /\ UNCHANGED <<nextId, issued>>

DeleteRow(p) ==
    /\ reqs[p].kind = "delete" /\ reqs[p].pc = "delete"
    /\ apps' = [apps EXCEPT ![reqs[p].id] = NoRow]
    /\ Respond(p, 200, "deleted")
    /\ UNCHANGED <<animals, nextId, issued>>

\* ------------------------------------------------- PUT /api/animals/:id
\* hasAvail: the body carries is_available (avail); otherwise it carries
\* only other columns of the animal
StartEdit(p, token, user, animal_id, hasAvail, avail) ==
    /\ IsNext(p)
    /\ issued < MaxRequests
    /\ issued' = issued + 1
    /\ LET r == [Idle EXCEPT !.kind = "edit", !.token = token,
                             !.user = user,
                             !.animal = animal_id, !.hasAvail = hasAvail,
                             !.avail = avail]
       IN IF requireStaff(user) # 0
            THEN Accept(p, [Refused(r.kind, r.user, requireStaff(user), "auth")
                              EXCEPT !.token = token])
            ELSE Accept(p, [r EXCEPT !.pc = "check"])
    /\ UNCHANGED <<animals, apps, nextId>>

EditCheck(p) ==
    /\ reqs[p].kind = "edit" /\ reqs[p].pc = "check"
    /\ IF reqs[p].animal \notin Animals
         THEN Respond(p, 404, "animal not found")
         ELSE Goto(p, "update")
    /\ UNCHANGED <<animals, apps, nextId, issued>>

EditUpdate(p) ==
    /\ reqs[p].kind = "edit" /\ reqs[p].pc = "update"
    /\ animals' = IF reqs[p].hasAvail
                    THEN SetAvailable(animals, reqs[p].animal, reqs[p].avail)
                    ELSE animals
    /\ Goto(p, "reload")
    /\ UNCHANGED <<apps, nextId, issued>>

EditReload(p) ==
    /\ reqs[p].kind = "edit" /\ reqs[p].pc = "reload"
    /\ Respond(p, 200, "updated")
    /\ UNCHANGED <<animals, apps, nextId, issued>>

\* ------------------------------------------------------ storage failures
\* executeQuery / getOne rethrow what pool.execute throws; every handler
\* catches it and answers 500, leaving the statements already run in place.
QueryFails(p) ==
    /\ InFlight(p)
    /\ reqs' = [reqs EXCEPT ![p] =
                  Refused(reqs[p].kind, reqs[p].user, 500, "server error")]
    /\ UNCHANGED <<animals, apps, nextId, issued>>

\* the response has been written out: the worker is free again
Deliver(p) ==
    /\ reqs[p].pc = "done"
    /\ reqs' = [reqs EXCEPT ![p] = Idle]
    /\ UNCHANGED <<animals, apps, nextId, issued>>

\* ------------------------------------------------------- specification
Init ==
    /\ animals = [a \in Animals |-> TRUE]
    /\ apps = [i \in AppIds |-> NoRow]
    /\ nextId = 1
    /\ reqs = [p \in Procs |-> Idle]
    /\ issued = 0

AnimalIds == 1..(NumAnimals + 1)      \* the last one names no row

\* the parameters of a request that its middleware chain lets through
\* (a refused request is answered whatever they are: one choice stands for all)
Let(through, values, any) == IF through THEN values ELSE {any}

Start ==
    \E p \in Procs :
        \/ \E t \in Applicants \cup {NoUser} :
           \E a \in Let(verifyToken(t) = 0, AnimalIds, 1) :
              StartCreate(p, t, a)
        \/ \E t \in Users \cup {NoUser}, n \in Notes :
           \E u \in EntryUsers(t) :
           \E i \in Let(requireStaff(u) = 0, AppIds, 1) :
           \E s \in Let(requireStaff(u) = 0, Statuses \cup {"other"}, "approved") :
              StartTransition(p, t, u, i, s, n)
        \/ \E t \in Users \cup {NoUser} :
           \E i \in Let(verifyToken(t) = 0, AppIds, 1) :
              StartDelete(p, t, i)
        \/ \E t \in Users \cup {NoUser} :
           \E u \in EntryUsers(t) :
           \E a \in Let(requireStaff(u) = 0, AnimalIds, 1) :
           \E b \in Let(requireStaff(u) = 0,
                        {<<FALSE, FALSE>>, <<TRUE, FALSE>>, <<TRUE, TRUE>>},
                        <<FALSE, FALSE>>) :
              StartEdit(p, t, u, a, b[1], b[2])

Step ==
    \E p \in Procs :
        \/ CreateCheckAnimal(p)
        \/ CreateCheckExisting(p)
        \/ CreateInsert(p)
        \/ CreateFetch(p)
        \/ TransitionLoad(p)
        \/ TransitionUpdate(p)
        \/ TransitionAnimalOff(p)
        \/ TransitionSiblings(p)
        \/ TransitionAnimalOn(p)
        \/ TransitionReload(p)
        \/ DeleteLoad(p)
        \/ DeleteRow(p)
        \/ EditCheck(p)
        \/ EditUpdate(p)
        \/ EditReload(p)
        \/ QueryFails(p)
        \/ Deliver(p)

Next == Start \/ Step

Spec == Init /\ [][Next]_vars

\* requests that do not overlap: a request starts only when none is in flight
Sequential == \A p \in Procs : reqs[p].pc = "idle"

NextSeq == (Sequential /\ Start) \/ Step

SpecSeq == Init /\ [][NextSeq]_vars

\* the same without PUT /api/animals/:id: requests that do not overlap and
\* are submissions, status calls and deletions only
StepCore ==
    \E p \in Procs :
        \/ CreateCheckAnimal(p)
        \/ CreateCheckExisting(p)
        \/ CreateInsert(p)
        \/ CreateFetch(p)
        \/ TransitionLoad(p)
        \/ TransitionUpdate(p)
        \/ TransitionAnimalOff(p)
        \/ TransitionSiblings(p)
        \/ TransitionAnimalOn(p)
        \/ TransitionReload(p)
        \/ DeleteLoad(p)
        \/ DeleteRow(p)
        \/ QueryFails(p)
        \/ Deliver(p)

NextCore ==
    \/ Sequential /\ Start /\ \A p \in Procs : reqs'[p].kind # "edit"
    \/ StepCore

SpecCore == Init /\ [][NextCore]_vars

TypeOK ==
    /\ animals \in [Animals -> BOOLEAN]
    /\ nextId \in 1..(MaxApps + 1)
    /\ \A i \in AppIds : apps[i] = NoRow \/ apps[i].status \in Statuses
    /\ \A i \in AppIds : i >= nextId => apps[i] = NoRow

\* ------------------------------------------------------------ vocabulary
\* of the properties

\* the approved applications on animal a
Approved(a) ==
    {i \in AppIds : apps[i].animal_id = a /\ apps[i].status = "approved"}

\* the applications of applicant u on animal a that are pending or approved
Outstanding(u, a) ==
    {i \in AppIds : apps[i].user_id = u /\ apps[i].animal_id = a
                    /\ apps[i].status \in {"pending", "approved"}}

\* no request is between two of its statements
Quiescent == \A p \in Procs : ~InFlight(p)

\* the answers of the handlers, in the words of the error taxonomy
Succeeded(r)   == r.pc = "done" /\ r.code \in {200, 201}
Unavailable(r) == r.pc = "done" /\ r.code = 500
Conflict(r)    == /\ r.pc = "done"
                  /\ \/ r.code = 409
                     \/ r.code = 400
                        /\ r.msg \in {"animal unavailable", "already pending"}

\* a status call that found its application pending and asks for approved
Approving(r) ==
    r.kind = "transition" /\ r.status = "approved" /\ r.cur = "pending"

\* a status call that found its application approved and rejects or
\* completes it
Releasing(r) ==
    /\ r.kind = "transition" /\ r.cur = "approved"
    /\ r.status \in {"rejected", "completed"}

\* C1: every animal has at most one approved application, in every state.
C1_AtMostOneApproved ==
    \A a \in Animals : Cardinality(Approved(a)) <= 1

\* C2: whenever no request is half-way through its statements, an animal is
\* unavailable if and only if exactly one application on it is approved.
C2_UnavailableIffApproved ==
    Quiescent =>
        \A a \in Animals : (~animals[a]) <=> (Cardinality(Approved(a)) = 1)

\* C3: an applicant never has two applications on the same animal that are
\* pending or approved.
C3_OneOutstandingPerPair ==
    \A u \in Users, a \in Animals : Cardinality(Outstanding(u, a)) <= 1

\* C4: of two approvals that each found its own application pending and the
\* common animal available, and that both were answered, exactly one
\* succeeds and leaves its application approved; the other is answered
\* Conflict and its application is still pending.
Raced(p, q) ==
    /\ p # q
    /\ reqs[p].pc = "done" /\ reqs[q].pc = "done"
    /\ Approving(reqs[p]) /\ Approving(reqs[q])
    /\ reqs[p].seen /\ reqs[q].seen
    /\ reqs[p].id # reqs[q].id /\ reqs[p].animal = reqs[q].animal
    /\ ~Unavailable(reqs[p]) /\ ~Unavailable(reqs[q])

C4_OneApprovalWins ==
    \A p, q \in Procs :
        Raced(p, q) =>
            \/ /\ Succeeded(reqs[p]) /\ apps[reqs[p].id].status = "approved"
               /\ Conflict(reqs[q]) /\ apps[reqs[q].id].status = "pending"
            \/ /\ Succeeded(reqs[q]) /\ apps[reqs[q].id].status = "approved"
               /\ Conflict(reqs[p]) /\ apps[reqs[p].id].status = "pending"

\* C5: while an approval of a pending application P on animal A runs, every
\* other application on A that is pending and changes becomes rejected with
\* the cascade note and the approving reviewer; and when the call answers
\* success, A is unavailable and no other application on A is still pending.
CascadeRejected(row, reviewer) ==
    [row EXCEPT !.status = "rejected", !.admin_notes = CascadeNote,
                !.reviewed_by = reviewer, !.reviewed_date = TRUE]

C5_ApprovalCascades ==
    [][\A p \in Procs :
        (InFlight(p) /\ Approving(reqs[p])) =>
            /\ \A i \in AppIds \ {reqs[p].id} :
                  (/\ apps[i].animal_id = reqs[p].animal
                   /\ apps[i].status = "pending"
                   /\ apps'[i] # apps[i])
                  => apps'[i] = CascadeRejected(apps[i], reqs[p].user)
            /\ Succeeded(reqs'[p]) =>
                  /\ ~animals'[reqs[p].animal]
                  /\ \A i \in AppIds \ {reqs[p].id} :
                        apps'[i].animal_id = reqs[p].animal
                        => apps'[i].status # "pending"]_vars

C5_Witness ==
    \E p \in Procs :
        /\ Succeeded(reqs[p]) /\ Approving(reqs[p])
        /\ ~animals[reqs[p].animal]
        /\ \E i \in AppIds \ {reqs[p].id} :
              /\ apps[i].animal_id = reqs[p].animal
              /\ apps[i].status = "rejected"
              /\ apps[i].admin_notes = CascadeNote
              /\ apps[i].reviewed_by = reqs[p].user

\* C6: a status call that found its application approved, asked for rejected
\* or completed and answered success leaves the animal available.
C6_ReleaseMakesAvailable ==
    \A p \in Procs :
        (Succeeded(reqs[p]) /\ Releasing(reqs[p])) => animals[reqs[p].animal]

C6_Witness ==
    \E p \in Procs :
        /\ Succeeded(reqs[p]) /\ Releasing(reqs[p])
        /\ reqs[p].status = "completed"
        /\ ~reqs[p].seen
        /\ animals[reqs[p].animal]

\* C7: an approval that found its application pending and the animal
\* unavailable is answered Conflict and the application is still pending.
C7_ApprovalOfTakenAnimalConflicts ==
    \A p \in Procs :
        (/\ reqs[p].pc = "done" /\ Approving(reqs[p])
         /\ ~reqs[p].seen /\ ~Unavailable(reqs[p]))
        => (Conflict(reqs[p]) /\ apps[reqs[p].id].status = "pending")

\* C8: every step of a create whose animal is unavailable ends the call with
\* Conflict (or with a storage failure) and changes no application and no
\* animal.
CreateOnTaken(r) ==
    /\ r.kind = "create" /\ r.pc \notin {"idle", "done"}
    /\ r.animal \in Animals /\ ~animals[r.animal]

C8_CreateOnUnavailableConflicts ==
    [][\A p \in Procs :
        (CreateOnTaken(reqs[p]) /\ reqs'[p] # reqs[p]) =>
            /\ Conflict(reqs'[p]) \/ Unavailable(reqs'[p])
            /\ apps' = apps /\ animals' = animals /\ nextId' = nextId]_vars

C8_Witness ==
    \E p \in Procs :
        /\ reqs[p].kind = "create" /\ Conflict(reqs[p])
        /\ reqs[p].msg = "animal unavailable"
        /\ ~animals[reqs[p].animal]
        /\ \E i \in AppIds : apps[i].animal_id = reqs[p].animal

\* C9: a create that answers success did so for an applicant who had no
\* other pending or approved application on that animal.
C9_OutstandingBlocksCreate ==
    \A p \in Procs :
        (reqs[p].kind = "create" /\ Succeeded(reqs[p]))
        => Outstanding(reqs[p].user, reqs[p].animal) \subseteq {reqs[p].id}

\* C10: an application that is rejected or completed keeps that status for
\* as long as its row exists, and no reviewed application becomes pending.
C10_TerminalStatusesStay ==
    [][\A i \in AppIds :
        /\ apps[i].status \in {"rejected", "completed"}
              => apps'[i].status \in {apps[i].status, "norow"}
        /\ apps[i].status \in {"approved", "rejected", "completed"}
              => apps'[i].status # "pending"]_vars

\* ----------------------------------------------- vocabulary, continued
NotFound(r) == r.pc = "done" /\ r.code = 404

\* the one answer of the status handler that turns a requested status down:
\* the 400 of express-validator
InvalidTransition(r) == r.pc = "done" /\ r.code = 400 /\ r.msg = "validation"

\* the answers of requireRole: 401 when req.user is missing, 403 when its
\* role is not one of those asked for
Forbidden(r) == r.pc = "done" /\ r.code \in {401, 403} /\ r.msg = "auth"

\* a status call that has been answered after it had loaded its row
Reviewed(r) ==
    r.kind = "transition" /\ r.pc = "done" /\ r.cur \in Statuses

\* C11: a status call whose requested status is the one it found on the
\* application is answered InvalidTransition, never success.
C11_SameStatusRejected ==
    \A p \in Procs :
        (Reviewed(reqs[p]) /\ reqs[p].status = reqs[p].cur)
        => (InvalidTransition(reqs[p]) /\ ~Succeeded(reqs[p]))

\* C12: a status call that found its application pending and asks for
\* completed fails, and the application is still pending.
C12_PendingNeverCompleted ==
    \A p \in Procs :
        (/\ Reviewed(reqs[p]) /\ reqs[p].cur = "pending"
         /\ reqs[p].status = "completed")
        => (~Succeeded(reqs[p]) /\ apps[reqs[p].id].status = "pending")

\* the call stands after a statement of its handler that writes
Wrote(r) ==
    \/ r.kind = "create" /\ r.pc = "fetch"
    \/ r.kind = "transition"
       /\ r.pc \in {"animalOff", "siblings", "animalOn", "reload"}

Failed(r) ==
    NotFound(r) \/ Conflict(r) \/ InvalidTransition(r) \/ Forbidden(r)

\* C13: the step by which a create or a status call is answered NotFound,
\* Conflict, InvalidTransition or Forbidden writes nothing, and the call had
\* run no writing statement before it.
C13_FailedCallsWriteNothing ==
    [][\A p \in Procs :
        (/\ reqs'[p].kind \in {"create", "transition"}
         /\ reqs'[p] # reqs[p]
         /\ Failed(reqs'[p]))
        => /\ ~Wrote(reqs[p])
           /\ apps' = apps /\ animals' = animals /\ nextId' = nextId]_vars

C13_Witness ==
    \E p \in Procs :
        /\ reqs[p].kind = "create" /\ reqs[p].msg = "already pending"
        /\ Conflict(reqs[p])
        /\ \E i \in existingApplication(apps, reqs[p].user, reqs[p].animal) :
              apps[i] = NewRow(reqs[p].user, reqs[p].animal)

\* an approval that has run its primary UPDATE and not yet both statements
\* of its cascade, the animal still available or a sibling still pending
MidCascade(r) ==
    /\ Approving(r) /\ r.pc \in {"animalOff", "siblings"}
    /\ apps[r.id].status = "approved"
    /\ \/ animals[r.animal]
       \/ \E i \in AppIds \ {r.id} :
             apps[i].animal_id = r.animal /\ apps[i].status = "pending"

\* the next statement of the call reads the store
Reading(r) ==
    \/ r.kind = "create" /\ r.pc \in {"checkAnimal", "checkExisting"}
    \/ r.kind \in {"transition", "delete"} /\ r.pc = "load"
    \/ r.kind = "edit" /\ r.pc = "check"

\* C14: while an approval stands between its primary update and the end of
\* its cascade, no other request runs a statement that reads the store.
C14_CascadeIsAtomic ==
    [][\A p, q \in Procs :
        (p # q /\ MidCascade(reqs[p]) /\ Reading(reqs[q]))
        => (reqs'[q] = reqs[q] \/ Unavailable(reqs'[q]))]_vars

\* C15: a status call that is answered with a storage failure after it had
\* loaded its row leaves the application with the status it had found and
\* the animal with the flag it had found.
C15_FailureRollsBack ==
    [][\A p \in Procs :
        (/\ reqs[p].kind = "transition" /\ InFlight(p)
         /\ reqs[p].pc # "load"
         /\ Unavailable(reqs'[p]))
        => /\ apps'[reqs[p].id].status = reqs[p].cur
           /\ animals'[reqs[p].animal] = reqs[p].seen]_vars

\* C16: when two status calls on one application both found the same
\* status and the same flag and both answered success, the application and
\* its animal are as one of the two orders of running the calls one after
\* the other leaves them: the status and the reviewer are those of the later
\* call, and the flag is what the later call makes of the flag the earlier
\* one left.
FlagAfter(flag, status, cur) ==
    IF AfterUpdate(status, cur) = "animalOff" THEN FALSE
    ELSE IF AfterUpdate(status, cur) = "animalOn" THEN TRUE
    ELSE flag

InOrder(first, second) ==
    /\ apps[second.id].status = second.status
    /\ apps[second.id].reviewed_by = second.user
    /\ animals[second.animal] =
          FlagAfter(FlagAfter(first.seen, first.status, first.cur),
                    second.status, first.status)

C16_SameApplicationSerializes ==
    \A p, q \in Procs :
        (/\ p # q
         /\ Reviewed(reqs[p]) /\ Reviewed(reqs[q])
         /\ Succeeded(reqs[p]) /\ Succeeded(reqs[q])
         /\ reqs[p].id = reqs[q].id
         /\ reqs[p].cur = reqs[q].cur /\ reqs[p].seen = reqs[q].seen)
        => (InOrder(reqs[p], reqs[q]) \/ InOrder(reqs[q], reqs[p]))

\* C17: of two creates for one (animal, applicant) pair that overlapped, at
\* most one answers success with its application pending.
Submitted(r) ==
    /\ r.kind = "create" /\ Succeeded(r)
    /\ apps[r.id].status = "pending"

C17_OneCreateWins ==
    \A p, q \in Procs :
        (/\ p # q
         /\ Submitted(reqs[p]) /\ Submitted(reqs[q])
         /\ reqs[p].animal = reqs[q].animal)
        => reqs[p].user # reqs[q].user

\* C18: when a create on animal A and an approval of another application on
\* A overlapped and both answered success, the created application is not
\* pending (the cascade rejected it).
C18_CreateSerializesWithApproval ==
    \A p, q \in Procs :
        (/\ reqs[p].kind = "create" /\ Succeeded(reqs[p])
         /\ Reviewed(reqs[q]) /\ Approving(reqs[q]) /\ Succeeded(reqs[q])
         /\ reqs[q].animal = reqs[p].animal /\ reqs[q].id # reqs[p].id)
        => apps[reqs[p].id].status # "pending"

\* C19: no step of an edit of an animal that has an approved application
\* changes the animal's is_available.
C19_EditKeepsFlagOfApprovedAnimal ==
    [][\A p \in Procs :
        (/\ reqs[p].kind = "edit" /\ InFlight(p)
         /\ reqs'[p] # reqs[p]
         /\ Approved(reqs[p].animal) # {})
        => animals' = animals]_vars

\* the caller holds a staff capability
StaffCapability(u) == u # NoUser /\ Role(u) \in {"admin", "volunteer"}

\* C20: a status call of a caller without a staff capability is answered
\* Forbidden by the step that receives it (403 when the caller is known, 401
\* when req.user is missing), and that step changes no application and no
\* animal; the call takes no other step but the departure of its answer.
C20_NonStaffTransitionForbidden ==
    [][\A p \in Procs :
        (/\ reqs'[p].kind = "transition" /\ reqs'[p] # reqs[p]
         /\ ~StaffCapability(reqs'[p].user))
        => /\ Forbidden(reqs'[p])
           /\ reqs'[p].user # NoUser => reqs'[p].code = 403
           /\ reqs[p].pc = "idle"
           /\ apps' = apps /\ animals' = animals /\ nextId' = nextId]_vars

C20_Witness ==
    \E p \in Procs :
        /\ reqs[p].kind = "transition" /\ reqs[p].user \in Applicants
        /\ Forbidden(reqs[p]) /\ reqs[p].code = 403
        /\ \E i \in AppIds : apps[i].status = "pending"

\* C21: every step of a status call whose application id names no row ends
\* the call with NotFound (or with a storage failure) and writes no
\* application and no animal.
C21_MissingApplicationNotFound ==
    [][\A p \in Procs :
        (/\ reqs[p].kind = "transition" /\ InFlight(p)
         /\ apps[reqs[p].id] = NoRow
         /\ reqs'[p] # reqs[p])
        => /\ NotFound(reqs'[p]) \/ Unavailable(reqs'[p])
           /\ apps' = apps /\ animals' = animals /\ nextId' = nextId]_vars

C21_Witness ==
    \E p \in Procs :
        /\ reqs[p].kind = "transition" /\ NotFound(reqs[p])
        /\ apps[reqs[p].id] = NoRow
        /\ \E i \in AppIds : apps[i].status = "pending"

\* the applications of applicant u on animal a that are rejected or completed
Terminal(u, a) ==
    {i \in AppIds : apps[i].user_id = u /\ apps[i].animal_id = a
                    /\ apps[i].status \in {"rejected", "completed"}}

\* a create of an applicant who has a rejected or completed application on
\* the animal, and no pending one beside the one this call inserted, while
\* the animal is available
Reapplying(r) ==
    /\ r.kind = "create" /\ r.pc \notin {"idle", "done"}
    /\ r.animal \in Animals /\ animals[r.animal]
    /\ Terminal(r.user, r.animal) # {}
    /\ \A i \in AppIds \ {r.id} :
          ~(/\ apps[i].user_id = r.user /\ apps[i].animal_id = r.animal
            /\ apps[i].status = "pending")

C23_SuccessfulTransitionRecorded ==
    \A p \in Procs :
        (reqs[p].kind = "transition" /\ Succeeded(reqs[p]))
        => /\ apps[reqs[p].id].status = reqs[p].status
           /\ apps[reqs[p].id].reviewed_by = reqs[p].user
           /\ apps[reqs[p].id].reviewed_date
           /\ apps[reqs[p].id].admin_notes = reqs[p].notes

C23_Witness ==
    \E p \in Procs :
        /\ reqs[p].kind = "transition" /\ Succeeded(reqs[p])
        /\ reqs[p].cur = "approved" /\ reqs[p].status = "completed"
        /\ apps[reqs[p].id].status = "completed"
        /\ apps[reqs[p].id].reviewed_by = "a1"
        /\ apps[reqs[p].id].admin_notes \in Notes

\* reviewed_by, reviewed_date and admin_notes of the row are unset
Unreviewed(row) ==
    row.reviewed_by = NULL /\ ~row.reviewed_date /\ row.admin_notes = NULL

\* C24: a row that appears is pending with reviewed_by, reviewed_date and
\* admin_notes unset, and a row loses that only by the primary UPDATE of a
\* status call on it or by the cascade of an approval on its animal.
C24_CreatedPendingAndUnreviewed ==
    [][\A i \in AppIds :
        /\ (apps[i] = NoRow /\ apps'[i] # NoRow)
              => (apps'[i].status = "pending" /\ Unreviewed(apps'[i]))
        /\ (apps[i] # NoRow /\ Unreviewed(apps[i]) /\ apps'[i] # NoRow
            /\ ~Unreviewed(apps'[i]))
              => \E p \in Procs :
                    /\ reqs[p].kind = "transition"
                    /\ \/ reqs[p].pc = "update" /\ reqs[p].id = i
                       \/ /\ reqs[p].pc = "siblings"
                          /\ reqs[p].status = "approved"
                          /\ reqs[p].animal = apps[i].animal_id
                          /\ apps'[i].status = "rejected"]_vars

C24_Witness ==
    \E i, j \in AppIds :
        /\ apps[i] # NoRow /\ apps[i].status = "pending" /\ Unreviewed(apps[i])
        /\ apps[j] # NoRow /\ ~Unreviewed(apps[j])
        /\ apps[j].animal_id = apps[i].animal_id

\* C25: a status call whose token names an admin or a volunteer is not
\* answered 401: its chain hands the token's user to requireStaff.
C25_StaffTokenPassesRequireStaff ==
    \A p \in Procs :
        (/\ reqs[p].kind = "transition" /\ reqs[p].pc = "done"
         /\ StaffCapability(reqs[p].token))
        => reqs[p].code # 401

\* C26: between requests, in the behaviours without PUT /api/animals/:id,
\* no application is pending on an animal that is unavailable.
C26_NoPendingOnUnavailable ==
    Quiescent =>
        \A i \in AppIds :
            apps[i].status = "pending" => animals[apps[i].animal_id]

\* C27: every step of a delete leaves every animal's flag and every row but
\* the one it names as they are; the step that answers success has removed
\* that row.
C27_DeleteRemovesOnlyItsRow ==
    [][\A p \in Procs :
        (reqs[p].kind = "delete" /\ InFlight(p) /\ reqs'[p] # reqs[p])
        => /\ animals' = animals
           /\ \A i \in AppIds \ {reqs[p].id} : apps'[i] = apps[i]
           /\ Succeeded(reqs'[p]) => apps'[reqs[p].id] = NoRow
           /\ ~Succeeded(reqs'[p]) => apps' = apps]_vars

C27_Witness ==
    \E p \in Procs :
        /\ reqs[p].kind = "delete" /\ Succeeded(reqs[p])
        /\ reqs[p].cur = "approved"
        /\ apps[reqs[p].id] = NoRow
        /\ ~animals[reqs[p].animal]
        /\ \E i \in AppIds : apps[i] # NoRow

\* C28: every step of an approval of a pending application on animal A
\* leaves the flag of every other animal, and every other application that
\* is on another animal or is not pending, as they are.
C28_ApprovalFrame ==
    [][\A p \in Procs :
        (InFlight(p) /\ Approving(reqs[p]) /\ reqs'[p] # reqs[p])
        => /\ \A a \in Animals \ {reqs[p].animal} : animals'[a] = animals[a]
           /\ \A i \in AppIds \ {reqs[p].id} :
                 (apps[i].animal_id # reqs[p].animal
                  \/ apps[i].status # "pending")
                 => apps'[i] = apps[i]]_vars

C28_Witness ==
    \E p \in Procs :
        /\ Succeeded(reqs[p]) /\ Approving(reqs[p])
        /\ \E i \in AppIds \ {reqs[p].id} :
              /\ apps[i].animal_id = reqs[p].animal
              /\ apps[i].status \in {"approved", "rejected", "completed"}
              /\ apps[i].admin_notes \in Notes

\* a status call that found its application pending and rejects it
Rejecting(r) ==
    r.kind = "transition" /\ r.cur = "pending" /\ r.status = "rejected"

\* C29: every step of the rejection of a pending application leaves every
\* animal's flag and every other application as they are.
C29_RejectionFrame ==
    [][\A p \in Procs :
        (InFlight(p) /\ Rejecting(reqs[p]) /\ reqs'[p] # reqs[p])
        => /\ animals' = animals
           /\ \A i \in AppIds \ {reqs[p].id} : apps'[i] = apps[i]]_vars

C29_Witness ==
    \E p \in Procs :
        /\ Succeeded(reqs[p]) /\ Rejecting(reqs[p])
        /\ apps[reqs[p].id].status = "rejected"
        /\ ~animals[reqs[p].animal]
        /\ \E i \in AppIds \ {reqs[p].id} :
              /\ apps[i].animal_id = reqs[p].animal
              /\ apps[i].status = "approved"

\* C30: a row disappears only by the DELETE of a delete request on it, and
\* when the caller's role is user the row is the caller's own and pending;
\* a delete request of a user on any other row is answered with a refusal
\* (or a storage failure) and removes nothing.
C30_UserDeletesOwnPendingOnly ==
    [][/\ \A i \in AppIds :
            (apps[i] # NoRow /\ apps'[i] = NoRow)
            => \E p \in Procs :
                  /\ reqs[p].kind = "delete" /\ reqs[p].id = i
                  /\ Role(reqs[p].user) = "user"
                        => /\ apps[i].user_id = reqs[p].user
                           /\ apps[i].status = "pending"
       /\ \A p \in Procs :
            (/\ reqs[p].kind = "delete" /\ InFlight(p)
             /\ Role(reqs[p].user) = "user"
             /\ apps[reqs[p].id] # NoRow
             /\ \/ apps[reqs[p].id].user_id # reqs[p].user
                \/ apps[reqs[p].id].status # "pending"
             /\ reqs'[p] # reqs[p])
            => /\ reqs'[p].pc = "done" /\ reqs'[p].code \in {400, 403, 500}
               /\ apps' = apps]_vars

C30_Witness ==
    \E p \in Procs :
        /\ reqs[p].kind = "delete" /\ reqs[p].pc = "done"
        /\ reqs[p].code = 400 /\ reqs[p].msg = "not pending"
        /\ Role(reqs[p].user) = "user"
        /\ apps[reqs[p].id].user_id = reqs[p].user
        /\ apps[reqs[p].id].status \in {"approved", "rejected", "completed"}
====
